---- MODULE Spec2Model ----
(***************************************************************************)
(* The register session and the sales ledger of src/main.py (Teppan Onoda   *)
(* AI cash register).                                                       *)
(*                                                                          *)
(* The source names its SKUs and sheet columns in Japanese.  The names are  *)
(* romanised here, one for one:                                             *)
(*   yakisoba                    = 焼きそば                                 *)
(*   yaki_toumorokoshi           = 焼きとうもろこし                         *)
(*   frankfurt                   = フランクフルト                           *)
(*   ramune                      = ラムネ                                   *)
(*   can_juice                   = 缶ジュース                               *)
(*   yakisoba_ramune_set         = 焼きそば&ラムネセット                    *)
(*   yakisoba_can_set            = 焼きそば&缶ジュースセット                *)
(*   keisys_yakisoba_can_set     = 【経シス割引券】焼きそば&缶ジュースセット *)
(*   special_yakisoba_ramune_set = 【特別割引券】焼きそば&ラムネセット      *)
(*   piedpiper_yakisoba_can_set  = 【PiedPiper割引券】焼きそば&缶ジュースセット *)
(*   rikote_yakisoba_can_set     = 【理工テ割引券】焼きそば&缶ジュースセット *)
(*   rinji_waribikiken           = 臨時割引券   (ad-hoc counter column)     *)
(*   timestamp / TransactionID / goukei_kingaku                             *)
(*                               = タイムスタンプ / TransactionID / 合計金額 *)
(*   "rinji_waribiki(a, b) - 400yen" = f"臨時割引(a, b) - 400円"            *)
(***************************************************************************)
EXTENDS Integers, Sequences, FiniteSets, TLC

VARIABLES
    cart,          \* st.session_state.cart: sequence of SKU names
    total_amount,  \* st.session_state.total_amount
    page,          \* st.session_state.page: "register" | "confirm"
    temp_menu,     \* st.session_state.temp_menu: name -> [price, items]
    gc,            \* the gspread client (TRUE) or None (FALSE)
    ledger,        \* rows appended to the worksheet, in append order
    event,         \* outcome of the last handler (its toast/warning/error)
    pc,            \* position of the script run: "idle" (no run under way) |
                   \* "appended" (会計完了 run between append_row and clear_cart)
    sheet,         \* the stored worksheet read by the analytics tab
    df,            \* the DataFrame flowing through the analytics tab
    df_analysis,   \* the copy with coupon sets merged into the plain sets
    stage,         \* position of the analytics script
    report         \* what the analytics tab has computed so far

vars == <<cart, total_amount, page, temp_menu, gc, ledger, event, pc,
          sheet, df, df_analysis, stage, report>>

session_vars == <<cart, total_amount, page, temp_menu, gc, ledger, event, pc>>
reader_vars == <<sheet, df, df_analysis, stage, report>>

----------------------------------------------------------------------------
(* Bounds of the model. *)

\* Longest cart explored.
MaxCart == 2

\* Number of recorded sales after which the session is no longer followed.
MaxLedger == 1

\* Most data rows of a stored worksheet.
MaxRows == 2

\* Most sale rows of a worksheet read for the association analysis.
MaxSales == 12

----------------------------------------------------------------------------
(* Program constants. *)

COGS ==
    ("yakisoba" :> 98) @@ ("frankfurt" :> 55) @@ ("yaki_toumorokoshi" :> 157) @@
    ("ramune" :> 90) @@ ("can_juice" :> 52) @@
    ("yakisoba_ramune_set" :> 98 + 90) @@
    ("yakisoba_can_set" :> 98 + 52) @@
    ("keisys_yakisoba_can_set" :> 98 + 52) @@
    ("special_yakisoba_ramune_set" :> 98 + 90) @@
    ("piedpiper_yakisoba_can_set" :> 98 + 52) @@
    ("rikote_yakisoba_can_set" :> 98 + 52)

MENU ==
    ("yakisoba" :> 500) @@ ("yaki_toumorokoshi" :> 400) @@
    ("frankfurt" :> 300) @@ ("ramune" :> 250) @@ ("can_juice" :> 150) @@
    ("yakisoba_ramune_set" :> 700) @@ ("yakisoba_can_set" :> 600) @@
    ("keisys_yakisoba_can_set" :> 500) @@
    ("special_yakisoba_ramune_set" :> 500) @@
    ("piedpiper_yakisoba_can_set" :> 500) @@
    ("rikote_yakisoba_can_set" :> 500)

SHEET_COLUMNS ==
    << "timestamp", "TransactionID", "goukei_kingaku",
       "yakisoba", "yaki_toumorokoshi", "frankfurt", "ramune", "can_juice",
       "yakisoba_ramune_set", "yakisoba_can_set",
       "keisys_yakisoba_can_set", "special_yakisoba_ramune_set",
       "piedpiper_yakisoba_can_set", "rikote_yakisoba_can_set",
       "rinji_waribikiken" >>

\* SHEET_COLUMNS[3:] in Python: the SKU columns.
SkuColumns == SubSeq(SHEET_COLUMNS, 4, Len(SHEET_COLUMNS))

food_options == <<"yakisoba", "yaki_toumorokoshi", "frankfurt">>
drink_options == <<"ramune", "can_juice">>

\* The base items a fixed set or coupon set is made of: the items whose
\* costs its COGS entry adds up (98 + 90 = yakisoba + ramune, 98 + 52 =
\* yakisoba + can_juice).
SetComponents ==
    ("yakisoba_ramune_set" :> {"yakisoba", "ramune"}) @@
    ("yakisoba_can_set" :> {"yakisoba", "can_juice"}) @@
    ("keisys_yakisoba_can_set" :> {"yakisoba", "can_juice"}) @@
    ("special_yakisoba_ramune_set" :> {"yakisoba", "ramune"}) @@
    ("piedpiper_yakisoba_can_set" :> {"yakisoba", "can_juice"}) @@
    ("rikote_yakisoba_can_set" :> {"yakisoba", "can_juice"})

----------------------------------------------------------------------------
(* Inputs of the model. *)

\* The menu buttons pressed in the explored sessions: base items, a fixed
\* set and a coupon set (every button calls add_to_cart the same way).
AddButtons ==
    {"yakisoba", "frankfurt", "can_juice",
     "yakisoba_ramune_set", "keisys_yakisoba_can_set"}

\* Values of the two multiselects, <<selected_foods, selected_drinks>>.  A
\* multiselect returns the chosen options in the order they were chosen.
CustomSelections ==
    { << <<>>, <<>> >>,
      << <<"frankfurt">>, <<"can_juice">> >>,
      << <<"yakisoba", "frankfurt">>, <<>> >>,
      << <<"frankfurt", "yakisoba">>, <<>> >> }

\* Values of the number_input (min_value=0).
CustomPrices == {0, 400}

----------------------------------------------------------------------------
(* Helpers. *)

Range(s) == {s[i] : i \in 1..Len(s)}

RECURSIVE Join(_, _)
\* ', '.join(selected_items)
Join(s, sep) ==
    IF s = <<>> THEN ""
    ELSE IF Len(s) = 1 THEN s[1]
    ELSE s[1] \o sep \o Join(Tail(s), sep)

\* f"臨時割引({', '.join(selected_items)}) - {custom_price}円"
item_name(selected_items, custom_price) ==
    "rinji_waribiki(" \o Join(selected_items, ", ") \o ") - "
        \o ToString(custom_price) \o "yen"

\* get_combined_menu(): {**MENU, **temp_prices}
get_combined_menu(tm) ==
    [k \in DOMAIN MENU \cup DOMAIN tm |->
        IF k \in DOMAIN tm THEN tm[k].price ELSE MENU[k]]

RECURSIVE SumGet(_, _)
\* sum(combined_menu.get(item, 0) for item in cart)
SumGet(combined_menu, c) ==
    IF c = <<>> THEN 0
    ELSE (IF c[1] \in DOMAIN combined_menu THEN combined_menu[c[1]] ELSE 0)
         + SumGet(combined_menu, Tail(c))

\* update_total(): the value it stores in total_amount.
update_total(c, tm) == SumGet(get_combined_menu(tm), c)

----------------------------------------------------------------------------
(* The session handlers (register tab). *)

\* A run of the script can be ended between two accesses of
\* st.session_state (streamlit hands control to a pending widget event
\* there), so a handler is followed for the writes it got done: `writes`
\* counts them, and a run ended early shows no toast (event "cut").

\* add_to_cart(item_name): the append, then update_total(); the caller
\* fixes temp_menu' first, as the code stores the bundle before it calls
\* add_to_cart.
add_to_cart(name, writes) ==
    /\ cart' = Append(cart, name)
    /\ total_amount' = IF writes >= 2 THEN update_total(cart', temp_menu')
                       ELSE total_amount
    /\ event' = IF writes >= 2 THEN "added" ELSE "cut"

\* clear_cart(): its four assignments in the order of the code.
clear_cart(writes) ==
    /\ cart' = IF writes >= 1 THEN <<>> ELSE cart
    /\ total_amount' = IF writes >= 2 THEN 0 ELSE total_amount
    /\ temp_menu' = IF writes >= 3 THEN <<>> ELSE temp_menu
    /\ page' = IF writes >= 4 THEN "register" ELSE page

\* A check that lets a price of 0 through.
bundle_check_negative_only(selected_items, custom_price) ==
    IF selected_items = <<>> THEN "warn_select_items"
    ELSE IF custom_price < 0 THEN "warn_price"
    ELSE "ok"

\* The if/elif/else of the custom-bundle button: which branch runs.
bundle_check(selected_items, custom_price) ==
    IF selected_items = <<>> THEN "warn_select_items"
    ELSE IF custom_price <= 0 THEN "warn_price"
    ELSE "ok"

\* A store under a key other than the name put in the cart.
temp_menu_put_other_key(tm, name, custom_price, selected_items) ==
    (Join(selected_items, ", ") :> [price |-> custom_price, items |-> selected_items])
        @@ tm

\* st.session_state.temp_menu[item_name] = {'price': ..., 'items': ...}
temp_menu_put(tm, name, custom_price, selected_items) ==
    (name :> [price |-> custom_price, items |-> selected_items]) @@ tm

\* The counting of the 会計完了 handler.
initial_counts == [col \in Range(SkuColumns) |-> 0]

\* A decomposition that counts no component.
CountComponents_none(items, counts) == counts

RECURSIVE CountComponents(_, _)
\* for component in temp_menu[item]['items']: if component in initial_counts: += 1
CountComponents(items, counts) ==
    IF items = <<>> THEN counts
    ELSE CountComponents(Tail(items),
            IF items[1] \in DOMAIN counts
            THEN [counts EXCEPT ![items[1]] = @ + 1]
            ELSE counts)

RECURSIVE CountItems(_, _, _)
\* for item in cart: ... (the loop that fills initial_counts)
CountItems(c, tm, counts) ==
    IF c = <<>> THEN counts
    ELSE CountItems(Tail(c), tm,
            IF c[1] \in DOMAIN tm
            THEN CountComponents(tm[c[1]].items,
                    [counts EXCEPT !["rinji_waribikiken"] = @ + 1])
            ELSE IF c[1] \in DOMAIN counts
                 THEN [counts EXCEPT ![c[1]] = @ + 1]
                 ELSE counts)

\* new_row_data = [now, transaction_id, total] + [counts of SHEET_COLUMNS[3:]]
\* (the clock reading and the uuid4 are not followed: "now", "uuid").
new_row_data(c, tm, total) ==
    LET counts == CountItems(c, tm, initial_counts)
    IN  <<"now", "uuid", total>>
            \o [i \in 1..Len(SkuColumns) |-> counts[SkuColumns[i]]]

\* The cart is changed until MaxLedger rows are stored.
CartOpen == Len(ledger) < MaxLedger

\* Orders are confirmed and checked out until MaxLedger rows are stored, and
\* for one row more while the session of the last row is not cleared.
SessionOpen ==
    \/ CartOpen
    \/ Len(ledger) = MaxLedger /\ (cart # <<>> \/ page = "confirm")

\* One of the eleven menu buttons.
PressMenuButton(item) ==
    /\ CartOpen
    /\ page = "register"
    /\ Len(cart) < MaxCart
    /\ temp_menu' = temp_menu
    /\ \E writes \in 1..2 : add_to_cart(item, writes)
    /\ UNCHANGED <<page, gc, ledger, pc, reader_vars>>

\* The button 臨時割引券セットをカートに追加: the bundle is stored, then
\* add_to_cart appends and recomputes (three writes).
CreateCustomBundle(selected_foods, selected_drinks, custom_price) ==
    LET selected_items == selected_foods \o selected_drinks
        branch == bundle_check(selected_items, custom_price)
    IN  /\ CartOpen
        /\ page = "register"
        /\ IF branch = "ok"
           THEN /\ Len(cart) < MaxCart
                /\ temp_menu' = temp_menu_put(temp_menu,
                                    item_name(selected_items, custom_price),
                                    custom_price, selected_items)
                /\ \E writes \in 1..3 :
                      IF writes = 1
                      THEN /\ event' = "cut"
                           /\ UNCHANGED <<cart, total_amount>>
                      ELSE add_to_cart(item_name(selected_items, custom_price),
                                       writes - 1)
           ELSE /\ event' = branch
                /\ UNCHANGED <<cart, total_amount, temp_menu>>
        /\ UNCHANGED <<page, gc, ledger, pc, reader_vars>>

\* The button 注文を確定 (shown for a non-empty cart, disabled without a client).
ConfirmOrder ==
    /\ SessionOpen
    /\ page = "register"
    /\ cart # <<>>
    /\ gc
    /\ page' = "confirm"
    /\ event' = "confirm"
    /\ UNCHANGED <<cart, total_amount, temp_menu, gc, ledger, pc, reader_vars>>

\* The button クリア (shown for a non-empty cart).
ClearButton ==
    /\ CartOpen
    /\ page = "register"
    /\ cart # <<>>
    /\ \E writes \in 1..4 :
          /\ clear_cart(writes)
          /\ event' = IF writes = 4 THEN "cleared" ELSE "cut"
    /\ UNCHANGED <<gc, ledger, pc, reader_vars>>

----------------------------------------------------------------------------
(* Checkout (confirm page). *)

\* An except branch that also resets the session.
WriteFailed_clears ==
    /\ clear_cart(4)
    /\ ledger' = ledger
    /\ event' = "write_failed"
    /\ pc' = "idle"

\* append_row raised: the except branches only show st.error and the run
\* is over.
WriteFailed ==
    /\ UNCHANGED <<cart, total_amount, temp_menu, page, ledger>>
    /\ event' = "write_failed"
    /\ pc' = "idle"

\* append_row returned: the row is in the worksheet and the run goes on to
\* st.success, st.balloons, st.cache_data.clear() and time.sleep(2), with the
\* session as it was.
WriteSucceeded(row) ==
    /\ ledger' = Append(ledger, row)
    /\ UNCHANGED <<cart, total_amount, temp_menu, page>>
    /\ event' = "stored"
    /\ pc' = "appended"

\* The button 会計完了, up to the return of append_row: the store either takes
\* the row or raises.  Pressed while an earlier 会計完了 run has stored its
\* row but not yet cleared the cart, it ends that run (streamlit stops a run
\* at its next st call when a widget event arrives; the exception is not an
\* Exception, so no except branch sees it) and the handler runs again.
Checkout ==
    /\ SessionOpen
    /\ page = "confirm"
    /\ IF gc
       THEN \E store_ok \in BOOLEAN :
                IF store_ok
                THEN WriteSucceeded(new_row_data(cart, temp_menu, total_amount))
                ELSE WriteFailed
       ELSE /\ event' = "not_connected"
            /\ pc' = "idle"
            /\ UNCHANGED <<cart, total_amount, temp_menu, page, ledger>>
    /\ UNCHANGED <<gc, reader_vars>>

\* The rest of the 会計完了 run after the sleep: clear_cart(), st.rerun();
\* a widget event ends it before or between the assignments of clear_cart.
CheckoutComplete ==
    /\ pc = "appended"
    /\ \E writes \in 0..4 :
          /\ clear_cart(writes)
          /\ event' = IF writes = 4 THEN "recorded" ELSE "cut"
    /\ pc' = "idle"
    /\ UNCHANGED <<gc, ledger, reader_vars>>

\* The button 修正する.  Pressed while a 会計完了 run has stored its row but
\* not yet cleared the cart, it ends that run before clear_cart().
BackButton ==
    /\ page = "confirm"
    /\ page' = "register"
    /\ event' = "back"
    /\ pc' = "idle"
    /\ UNCHANGED <<cart, total_amount, temp_menu, gc, ledger, reader_vars>>

----------------------------------------------------------------------------
(* The session specification. *)

EmptySheet == [header |-> <<>>, rows |-> <<>>]

ReaderIdle ==
    /\ sheet = EmptySheet
    /\ df = EmptySheet
    /\ df_analysis = EmptySheet
    /\ stage = "idle"
    /\ report = <<>>

\* Session state after the "if ... not in st.session_state" block; the
\* client is there or not for the whole run (st.cache_resource).
SessionInit ==
    /\ cart = <<>>
    /\ total_amount = 0
    /\ page = "register"
    /\ temp_menu = <<>>
    /\ ledger = <<>>
    /\ event = "start"
    /\ pc = "idle"

Init ==
    /\ SessionInit
    /\ gc \in BOOLEAN
    /\ ReaderIdle

Next ==
    \/ \E item \in AddButtons : PressMenuButton(item)
    \/ \E sel \in CustomSelections, custom_price \in CustomPrices :
           CreateCustomBundle(sel[1], sel[2], custom_price)
    \/ ConfirmOrder
    \/ ClearButton
    \/ Checkout
    \/ CheckoutComplete
    \/ BackButton

Spec == Init /\ [][Next]_vars

----------------------------------------------------------------------------
(* What the claims speak of. *)

\* Position of a column in a ledger row.
ColumnIndex(col) == CHOOSE i \in 1..Len(SHEET_COLUMNS) : SHEET_COLUMNS[i] = col

Col(row, col) == row[ColumnIndex(col)]

RowTotal(row) == row[ColumnIndex("goukei_kingaku")]

\* A step that appended a row, and the row.
Appended == Len(ledger') = Len(ledger) + 1
NewRow == ledger'[Len(ledger')]

\* Number of occurrences of a name in a cart.
Occ(c, name) == Cardinality({i \in 1..Len(c) : c[i] = name})

\* Price of a resolvable name in the combined catalog.
CatalogPrice(name, tm) ==
    IF name \in DOMAIN tm THEN tm[name].price ELSE MENU[name]

RECURSIVE CatalogSum(_, _)
CatalogSum(c, tm) ==
    IF c = <<>> THEN 0 ELSE CatalogPrice(c[1], tm) + CatalogSum(Tail(c), tm)

RECURSIVE SumOver(_, _)
\* Sum of f over a finite set of strings.
SumOver(f, S) ==
    IF S = {} THEN 0
    ELSE LET x == CHOOSE y \in S : TRUE IN f[x] + SumOver(f, S \ {x})

\* Sum over the SKU columns that have a catalog price of quantity * price.
ColumnSum(row) ==
    SumOver([c \in DOMAIN MENU |-> Col(row, c) * MENU[c]], DOMAIN MENU)

\* Units of ad-hoc bundles in a cart, and those with a given component.
AdhocUnits(c, tm) == {i \in 1..Len(c) : c[i] \in DOMAIN tm}
AdhocUnitsWith(c, tm, col) ==
    {i \in AdhocUnits(c, tm) : col \in Range(tm[c[i]].items)}

\* The components of a bundle: declared (ad-hoc) or by its make-up (sets).
Components(b, tm) ==
    IF b \in DOMAIN tm THEN Range(tm[b].items) ELSE SetComponents[b]

IsBundle(b, tm) == b \in DOMAIN tm \/ b \in DOMAIN SetComponents

OwnColumn(b, tm) == IF b \in DOMAIN tm THEN "rinji_waribikiken" ELSE b

----------------------------------------------------------------------------
(* C1 *)

\* C1: the total_amount of every row checkout appends for a non-empty cart
\* equals the sum, over the occurrences in the cart being checked out, of
\* the price in the combined catalog (MENU plus the live ad-hoc bundles).
C1_CheckoutTotalIsCatalogSum ==
    [][(Appended /\ cart # <<>>) =>
            RowTotal(NewRow) = CatalogSum(cart, temp_menu)]_vars

----------------------------------------------------------------------------
(* C2 *)

\* C2: every appended row has total_amount equal to the sum over its SKU
\* columns of quantity times catalog price (a checkout whose row is
\* otherwise fails and appends nothing).
C2_Original_RowTotalIsColumnSum ==
    \A i \in 1..Len(ledger) : RowTotal(ledger[i]) = ColumnSum(ledger[i])

----------------------------------------------------------------------------
(* C3 *)

\* C3 as stated: checking out a cart that holds one unit of a bundle (fixed
\* set, coupon set or ad-hoc) gives a row with 1 in the bundle's own column
\* (the ad-hoc counter for an ad-hoc bundle) and 1 in every component column.
C3_Original_EveryBundleDecomposed ==
    [][(Appended /\ Len(cart) = 1 /\ IsBundle(cart[1], temp_menu)) =>
            /\ Col(NewRow, OwnColumn(cart[1], temp_menu)) = 1
            /\ \A c \in Components(cart[1], temp_menu) : Col(NewRow, c) = 1
      ]_vars

\* C3 amended: only ad-hoc bundles are decomposed.  In every appended row a
\* base-item column counts the units of that item plus the ad-hoc units
\* having it as a component, the ad-hoc counter counts the ad-hoc units, and
\* a fixed-set or coupon-set column counts the units of that set alone (its
\* components' columns are not incremented).
C3_OnlyAdhocBundlesDecomposed ==
    [][Appended =>
            \A col \in Range(SkuColumns) :
                Col(NewRow, col) =
                    Occ(cart, col)
                    + Cardinality(AdhocUnitsWith(cart, temp_menu, col))
                    + (IF col = "rinji_waribikiken"
                       THEN Cardinality(AdhocUnits(cart, temp_menu)) ELSE 0)
      ]_vars

\* The sale of one ad-hoc bundle {frankfurt, can_juice} at 400 and nothing
\* else: counter 1, both components 1, yakisoba 0.
C3_Witness ==
    \E i \in 1..Len(ledger) :
        /\ Col(ledger[i], "rinji_waribikiken") = 1
        /\ Col(ledger[i], "frankfurt") = 1
        /\ Col(ledger[i], "can_juice") = 1
        /\ Col(ledger[i], "yakisoba") = 0
        /\ RowTotal(ledger[i]) = 400

----------------------------------------------------------------------------
(* C4 *)

\* C4: a checkout whose append fails leaves cart, running total and ad-hoc
\* bundle table as they were, appends nothing and stays on the confirm page.
C4_FailedAppendKeepsSession ==
    [][event' = "write_failed" =>
            /\ cart' = cart
            /\ total_amount' = total_amount
            /\ temp_menu' = temp_menu
            /\ ledger' = ledger
            /\ page = "confirm"
            /\ page' = "confirm"
      ]_vars

\* A failed checkout of a cart holding an ad-hoc bundle.
C4_Witness ==
    /\ event = "write_failed"
    /\ page = "confirm"
    /\ cart # <<>>
    /\ DOMAIN temp_menu # {}

----------------------------------------------------------------------------
(* C5 *)

\* C5: the clear button, and the end of a checkout run that stored its row,
\* leave an empty cart, a running total of 0 and no ad-hoc bundle; and in
\* every state every ad-hoc bundle defined is in the current cart (none
\* outlives its cart).
C5_ClearReleasesEverything ==
    /\ [](DOMAIN temp_menu \subseteq Range(cart))
    /\ [][(event' = "cleared" \/ pc = "appended") =>
            /\ cart' = <<>>
            /\ total_amount' = 0
            /\ temp_menu' = <<>>
         ]_vars

----------------------------------------------------------------------------
(* C6 *)

\* C6: in every reachable session state every name in the cart is a key of
\* MENU or of temp_menu.
C6_CartNamesResolve ==
    \A i \in 1..Len(cart) : cart[i] \in DOMAIN MENU \cup DOMAIN temp_menu

\* A cart of an ad-hoc bundle and a menu item, on the confirm page.
C6_Witness ==
    /\ page = "confirm"
    /\ Len(cart) = 2
    /\ cart[1] \in DOMAIN temp_menu
    /\ cart[2] \in DOMAIN MENU

----------------------------------------------------------------------------
(* C8 *)

\* C8: pressing the custom-bundle button with an empty selection or a price
\* <= 0 changes neither the ad-hoc bundle table nor the cart nor the total.
C8_InvalidBundleRejected ==
    [][\A sel \in CustomSelections, custom_price \in CustomPrices :
            (/\ CreateCustomBundle(sel[1], sel[2], custom_price)
             /\ (sel[1] \o sel[2] = <<>> \/ custom_price <= 0))
            => UNCHANGED <<cart, total_amount, temp_menu>>
      ]_vars

\* A rejected price on top of a cart that already holds an ad-hoc bundle.
C8_Witness ==
    /\ event = "warn_price"
    /\ cart # <<>>
    /\ DOMAIN temp_menu # {}

----------------------------------------------------------------------------
(* C9 *)

\* C9 as stated: two ad-hoc bundles of one session with the same component
\* set and the same price are one entry of temp_menu.
C9_SameSetSamePriceOneEntry ==
    \A n1, n2 \in DOMAIN temp_menu :
        (/\ Range(temp_menu[n1].items) = Range(temp_menu[n2].items)
         /\ temp_menu[n1].price = temp_menu[n2].price)
        => n1 = n2

----------------------------------------------------------------------------
(* C7: add_to_cart called on its own, with names of any kind. *)

\* A name that is neither a MENU key nor an ad-hoc bundle.
UnknownNames == {"takoyaki"}

\* A call add_to_cart(name) outside the button handlers.
CallAddToCart(name) ==
    /\ CartOpen
    /\ Len(cart) < MaxCart
    /\ temp_menu' = temp_menu
    /\ \E writes \in 1..2 : add_to_cart(name, writes)
    /\ UNCHANGED <<page, gc, ledger, pc, reader_vars>>

NextAdd ==
    \/ Next
    \/ \E name \in AddButtons \cup UnknownNames : CallAddToCart(name)

SpecAdd == Init /\ [][NextAdd]_vars

\* C7: add_to_cart with a name that is neither in MENU nor a defined ad-hoc
\* bundle is rejected: cart and running total stay as they were.
C7_UnknownAddRejected ==
    [][\A name \in UnknownNames :
            (name \notin DOMAIN MENU \cup DOMAIN temp_menu /\ CallAddToCart(name))
            => (cart' = cart /\ total_amount' = total_amount)
      ]_vars

----------------------------------------------------------------------------
(* The analytics tab: reading the worksheet. *)

\* Cells of a worksheet or DataFrame: a number, a blank (NaN/NaT), a text
\* that is neither a number nor a date, a parseable date-time (its hour).
Num(n) == [k |-> "num", n |-> n]
Blank == [k |-> "blank", n |-> 0]
Text == [k |-> "text", n |-> 0]
Time(h) == [k |-> "time", n |-> h]

\* pd.to_numeric(errors='coerce') of one cell.
to_numeric(cell) == IF cell.k = "num" THEN cell ELSE Blank

\* .fillna(0) of one cell.
fillna0(cell) == IF cell.k = "blank" THEN Num(0) ELSE cell

\* Value a cell adds to a pandas sum (NaN is skipped).
SumValue(cell) == IF cell.k = "num" THEN cell.n ELSE 0

RECURSIVE SumRows(_, _)
\* df[col].sum()
SumRows(rows, col) ==
    IF rows = <<>> THEN 0
    ELSE SumValue(rows[1][col]) + SumRows(Tail(rows), col)

\* Keep the entries of a sequence that are in a set, in the sequence's order.
Filter(seq, S) == LET In(x) == x \in S IN SelectSeq(seq, In)

\* product_cols_for_analysis
product_cols_for_analysis ==
    <<"yakisoba", "yaki_toumorokoshi", "frankfurt", "ramune", "can_juice",
      "yakisoba_ramune_set", "yakisoba_can_set">>

\* set_menu_cols
set_menu_cols ==
    <<"yakisoba_ramune_set", "yakisoba_can_set",
      "keisys_yakisoba_can_set", "special_yakisoba_ramune_set",
      "piedpiper_yakisoba_can_set", "rikote_yakisoba_can_set",
      "rinji_waribikiken">>

\* The coupon sets summed into each plain set, when their column exists.
yaki_lamu_coupons == <<"special_yakisoba_ramune_set">>
yaki_can_coupons ==
    <<"keisys_yakisoba_can_set", "piedpiper_yakisoba_can_set",
      "rikote_yakisoba_can_set">>

\* load_data_from_sheet: reindex to the SHEET_COLUMNS the sheet has, in
\* SHEET_COLUMNS order, then dropna(how='all').
load_data_from_sheet(sh) ==
    LET cols == Filter(SHEET_COLUMNS, Range(sh.header))
        cut == [i \in 1..Len(sh.rows) |-> [c \in Range(cols) |-> sh.rows[i][c]]]
        NotAllNa(r) == \E c \in Range(cols) : r[c].k # "blank"
    IN  [header |-> cols, rows |-> SelectSeq(cut, NotAllNa)]

\* DataFrame.empty: no row or no column.
IsEmpty(d) == d.rows = <<>> \/ d.header = <<>>

EmptyReport ==
    [key_error |-> "", total_sales |-> 0, total_cogs |-> 0, transactions |-> 0,
     product_sales |-> <<>>, mining |-> "", need |-> 0, set_menu |-> <<>>]

\* A lookup of a column the frame does not have raises KeyError: the script
\* run ends there.
RaiseKeyError(col) ==
    /\ stage' = "key_error"
    /\ report' = [report EXCEPT !.key_error = col]
    /\ UNCHANGED <<df, df_analysis>>

\* df_raw = load_data_from_sheet(gc); a failed read is caught and gives the
\* empty frame; an empty frame ends the tab with a warning.
LoadData ==
    /\ stage = "start"
    /\ \E read_ok \in BOOLEAN :
          df' = IF read_ok THEN load_data_from_sheet(sheet)
                ELSE [header |-> SHEET_COLUMNS, rows |-> <<>>]
    /\ stage' = IF IsEmpty(df') THEN "no_data" ELSE "loaded"
    /\ UNCHANGED <<df_analysis, report, sheet, session_vars>>

\* The frame preprocess_data returns when every column it indexes exists.
preprocess_data(d) ==
    LET HasTime(r) == r["timestamp"].k = "time"
        Convert(r) ==
            [c \in Range(d.header) |->
                IF c = "goukei_kingaku" THEN to_numeric(r[c])
                ELSE IF c \in Range(SkuColumns) THEN fillna0(to_numeric(r[c]))
                ELSE r[c]]
        kept == SelectSeq(d.rows, HasTime)
    IN  [header |-> d.header, rows |-> [i \in 1..Len(kept) |-> Convert(kept[i])]]

\* df = preprocess_data(df_raw)
Preprocess ==
    /\ stage = "loaded"
    /\ IF "timestamp" \notin Range(df.header) THEN RaiseKeyError("timestamp")
       ELSE IF "goukei_kingaku" \notin Range(df.header)
            THEN RaiseKeyError("goukei_kingaku")
       ELSE /\ df' = preprocess_data(df)
            /\ stage' = "preprocessed"
            /\ UNCHANGED <<df_analysis, report>>
    /\ UNCHANGED <<sheet, session_vars>>

RECURSIVE SumCols(_, _)
\* df[cols].sum(axis=1) for one row
SumCols(r, cols) ==
    IF cols = <<>> THEN 0 ELSE SumValue(r[cols[1]]) + SumCols(r, Tail(cols))

\* df_analysis: the coupon sets added into the two plain set columns.
merge_sets(d) ==
    LET lamu == <<"yakisoba_ramune_set">> \o Filter(yaki_lamu_coupons, Range(d.header))
        can == <<"yakisoba_can_set">> \o Filter(yaki_can_coupons, Range(d.header))
        Merge(r) ==
            [c \in Range(d.header) |->
                IF c = "yakisoba_ramune_set" THEN Num(SumCols(r, lamu))
                ELSE IF c = "yakisoba_can_set" THEN Num(SumCols(r, can))
                ELSE r[c]]
    IN  [header |-> d.header, rows |-> [i \in 1..Len(d.rows) |-> Merge(d.rows[i])]]

\* The block that builds df_analysis: df[yaki_lamu_cols] and df[yaki_can_cols]
\* index the plain set columns without checking that they exist.
MergeSets ==
    /\ stage = "preprocessed"
    /\ IF "yakisoba_ramune_set" \notin Range(df.header)
       THEN RaiseKeyError("yakisoba_ramune_set")
       ELSE IF "yakisoba_can_set" \notin Range(df.header)
            THEN RaiseKeyError("yakisoba_can_set")
       ELSE /\ df_analysis' = merge_sets(df)
            /\ stage' = "merged"
            /\ UNCHANGED <<df, report>>
    /\ UNCHANGED <<sheet, session_vars>>

RECURSIVE CogsOf(_, _)
\* total_cogs: sum over the columns of df that COGS prices
CogsOf(d, cols) ==
    IF cols = <<>> THEN 0
    ELSE SumRows(d.rows, cols[1]) * COGS[cols[1]] + CogsOf(d, Tail(cols))

\* 1. Summary (the displayed average is total_sales / total_transactions, or
\* 0 when there is no transaction).
Summary ==
    /\ stage = "merged"
    /\ report' = [report EXCEPT
            !.total_sales = SumRows(df.rows, "goukei_kingaku"),
            !.total_cogs = CogsOf(df, Filter(df.header, DOMAIN COGS)),
            !.transactions = Len(df.rows)]
    /\ stage' = "summarised"
    /\ UNCHANGED <<df, df_analysis, sheet, session_vars>>

\* 2. product_sales: quantity and sales per analysis column, or the empty
\* table when the frame is empty or lacks one of the columns.
Ranking ==
    /\ stage = "summarised"
    /\ report' = [report EXCEPT !.product_sales =
            IF ~IsEmpty(df_analysis)
               /\ Range(product_cols_for_analysis) \subseteq Range(df_analysis.header)
            THEN [c \in Range(product_cols_for_analysis) |->
                    [quantity |-> SumRows(df_analysis.rows, c),
                     sales |-> SumRows(df_analysis.rows, c) * MENU[c]]]
            ELSE <<>>]
    /\ stage' = "ranked"
    /\ UNCHANGED <<df, df_analysis, sheet, session_vars>>

\* 3. The time series: resample(...).agg(('TransactionID', 'count'), ...)
\* needs the TransactionID column; the series is drawn, not kept.
TimeSeries ==
    /\ stage = "ranked"
    /\ \E time_interval \in {10, 20, 30, 60} :
          IF "TransactionID" \notin Range(df.header)
          THEN RaiseKeyError("TransactionID")
          ELSE /\ stage' = "binned"
               /\ UNCHANGED <<df, df_analysis, report>>
    /\ UNCHANGED <<sheet, session_vars>>

\* 4. basket_sets = df_analysis[product_cols_for_analysis] > 0 indexes all
\* seven columns; mining needs more than 10 rows.
Basket ==
    /\ stage = "binned"
    /\ LET missing == Filter(product_cols_for_analysis,
                             Range(product_cols_for_analysis) \ Range(df_analysis.header))
       IN  IF missing # <<>> THEN RaiseKeyError(missing[1])
           ELSE /\ report' =
                      IF Len(df_analysis.rows) > 10
                      THEN [report EXCEPT !.mining = "mined"]
                      ELSE [report EXCEPT !.mining = "insufficient",
                                          !.need = 11 - Len(df_analysis.rows)]
                /\ stage' = "basket"
                /\ UNCHANGED <<df, df_analysis>>
    /\ UNCHANGED <<sheet, session_vars>>

\* 5 & 6. Units per set and coupon column, 0 for a column df lacks.
SetMenu ==
    /\ stage = "basket"
    /\ report' = [report EXCEPT !.set_menu =
            [c \in Range(set_menu_cols) |->
                IF c \in Range(df.header) THEN SumRows(df.rows, c) ELSE 0]]
    /\ stage' = "done"
    /\ UNCHANGED <<df, df_analysis, sheet, session_vars>>

----------------------------------------------------------------------------
(* Stored worksheets read in the model. *)

\* A column the schema does not know.
ExtraColumn == "memo"

Reverse(seq) == [i \in 1..Len(seq) |-> seq[Len(seq) + 1 - i]]

\* Headers: the schema with at most one column missing, possibly with an
\* unknown column at the end, possibly in reverse order.
StoredHeaders ==
    LET Drops == {{}} \cup {{c} : c \in Range(SHEET_COLUMNS)}
        Base(D) == Filter(SHEET_COLUMNS, Range(SHEET_COLUMNS) \ D)
    IN  UNION {
            { Base(D), Base(D) \o <<ExtraColumn>>,
              Reverse(Base(D)), Reverse(Base(D) \o <<ExtraColumn>>) }
            : D \in Drops }

\* The ad-hoc bundle of the sample sale.
SampleBundle == item_name(<<"frankfurt", "can_juice">>, 400)
SampleTempMenu ==
    temp_menu_put(<<>>, SampleBundle, 400, <<"frankfurt", "can_juice">>)

\* Rows as checkout writes them, for two sample carts.
SampleSale(kind) ==
    IF kind = "sale_b"
    THEN new_row_data(<<"keisys_yakisoba_can_set", SampleBundle>>, SampleTempMenu, 900)
    ELSE new_row_data(<<"yakisoba", "yakisoba", "ramune">>, <<>>, 1250)

\* Kinds of stored rows: two sales, a sale whose timestamp was overwritten
\* by hand, a row of blanks.
RowKinds == {"sale_a", "sale_b", "bad_time", "blank"}

\* The cells of a stored row under a header.
StoredRow(kind, header) ==
    [c \in Range(header) |->
        IF kind = "blank" THEN Blank
        ELSE IF c = ExtraColumn THEN Text
        ELSE IF c = "timestamp" THEN (IF kind = "bad_time" THEN Text ELSE Time(10))
        ELSE IF c = "TransactionID" THEN Text
        ELSE Num(Col(SampleSale(kind), c))]

StoredSheets ==
    { [header |-> h, rows |-> [i \in 1..Len(ks) |-> StoredRow(ks[i], h)]] :
        h \in StoredHeaders,
        ks \in UNION {[1..n -> RowKinds] : n \in 0..MaxRows} }

InitRead ==
    /\ SessionInit
    /\ gc = TRUE
    /\ sheet \in StoredSheets
    /\ df = EmptySheet
    /\ df_analysis = EmptySheet
    /\ stage = "start"
    /\ report = EmptyReport

NextRead ==
    \/ LoadData
    \/ Preprocess
    \/ MergeSets
    \/ Summary
    \/ Ranking
    \/ TimeSeries
    \/ Basket
    \/ SetMenu

SpecRead == InitRead /\ [][NextRead]_vars

----------------------------------------------------------------------------
(* C10 *)

\* The three fixed columns are stored: only SKU columns may be missing.
FixedColumnsStored ==
    {"timestamp", "TransactionID", "goukei_kingaku"} \subseteq Range(sheet.header)

\* C10: whatever SKU columns the stored header lacks, adds or reorders, the
\* analytics run does not fail, and a SKU column that is not stored counts
\* as 0 in the per-item ranking.
C10_SchemaDriftTolerated ==
    FixedColumnsStored =>
        /\ stage # "key_error"
        /\ (stage = "done" /\ report.transactions > 0) =>
                \A c \in Range(product_cols_for_analysis) \ Range(sheet.header) :
                    /\ report.product_sales # <<>>
                    /\ report.product_sales[c].quantity = 0

----------------------------------------------------------------------------
(* C11: worksheets long enough for the association analysis. *)

\* Headers: the schema, the schema without a coupon column, the schema
\* without an analysis column.
MiningHeaders ==
    { SHEET_COLUMNS,
      Filter(SHEET_COLUMNS, Range(SHEET_COLUMNS) \ {"rikote_yakisoba_can_set"}),
      Filter(SHEET_COLUMNS, Range(SHEET_COLUMNS) \ {"can_juice"}) }

\* Row kinds of a worksheet: n_bad rows with an overwritten timestamp, then
\* n_sale sales (the two sample sales in turn), then n_blank rows of blanks.
MiningKinds(n_bad, n_sale, n_blank) ==
    [i \in 1..n_bad |-> "bad_time"]
        \o [i \in 1..n_sale |-> IF i % 2 = 1 THEN "sale_a" ELSE "sale_b"]
        \o [i \in 1..n_blank |-> "blank"]

MiningSheets ==
    { [header |-> h,
       rows |-> [i \in 1..(n_bad + n_sale + n_blank) |->
                    StoredRow(MiningKinds(n_bad, n_sale, n_blank)[i], h)]] :
        h \in MiningHeaders,
        n_bad \in 0..1, n_sale \in 0..MaxSales, n_blank \in 0..1 }

InitMine ==
    /\ SessionInit
    /\ gc = TRUE
    /\ sheet \in MiningSheets
    /\ df = EmptySheet
    /\ df_analysis = EmptySheet
    /\ stage = "start"
    /\ report = EmptyReport

SpecMine == InitMine /\ [][NextRead]_vars

\* The decoded transactions of the stored worksheet: its rows with a
\* timestamp that parses.
Decoded ==
    Cardinality({i \in 1..Len(sheet.rows) :
                    /\ "timestamp" \in Range(sheet.header)
                    /\ sheet.rows[i]["timestamp"].k = "time"})

\* C11: a run that ends (with its last table or with the "no sales data
\* yet" warning) on a worksheet of n <= 10 decoded transactions reports
\* "insufficient data, 11 - n more needed"; and mining runs only from 11
\* decoded transactions on.
C11_Original_InsufficientForAnyLedger ==
    /\ report.mining = "mined" => Decoded >= 11
    /\ (stage \in {"done", "no_data"} /\ Decoded <= 10) =>
            /\ report.mining = "insufficient"
            /\ report.need = 11 - Decoded

----------------------------------------------------------------------------
(* C12: the confirmation page. *)

\* C12: on the confirmation page the cart is never empty; every row a
\* checkout appends comes from a non-empty cart and counts at least one
\* unit; the back button leads from the confirmation page to the register
\* page and leaves cart, running total and custom-bundle table as they were.
C12_ConfirmPageHasCart ==
    /\ [](page = "confirm" => cart # <<>>)
    /\ [][Appended =>
            /\ cart # <<>>
            /\ \E col \in Range(SkuColumns) : Col(NewRow, col) > 0]_vars
    /\ [][event' = "back" =>
            /\ page = "confirm"
            /\ page' = "register"
            /\ cart' = cart
            /\ total_amount' = total_amount
            /\ temp_menu' = temp_menu]_vars

====
